---- MODULE Spec2Model ----
(***************************************************************************)
(* Access-control and consistency model of community-connect: the          *)
(* row-level-security policies, table constraints and triggers of the      *)
(* SQL migrations, and the client data operations of src/lib that issue    *)
(* requests against them.  Every request is made by a caller, identified   *)
(* by the profile id that get_my_profile_id() resolves for the session.    *)
(***************************************************************************)
EXTENDS Integers, FiniteSets, Sequences, TLC

\* ------------------------------------------------------------------ bounds
NumProfiles == 3
MaxRequestRows == 2
MaxFollowRows == 2
MaxConversationRows == 2
MaxUnfollowCalls == 1
MaxConvCalls == 2
MaxMessageRows == 2
MaxSendCalls == 1
MaxTime == 1
MaxGroupRows == 2
MaxGroupMessageRows == 1
MaxGroupMemberRows == 3

Profiles == 1..NumProfiles
Statuses == {"pending", "accepted", "rejected"}

\* error codes a request can return (PostgreSQL SQLSTATE), "ok" for none
OK == "ok"
RLS_VIOLATION == "42501"
UNIQUE_VIOLATION == "23505"
CHECK_VIOLATION == "23514"
FOREIGN_KEY_VIOLATION == "23503"
INVALID_OBJECT_DEFINITION == "42P17"

VARIABLES
  follow_requests,   \* rows [id, sender_id, receiver_id, status]
  follows,           \* rows [id, follower_id, following_id]
  conversations,     \* rows [id, user_1, user_2]
  seq,               \* next fresh row id of each table
  unfollowCalls,     \* unfollowUser calls between their two requests
  convCalls,         \* getOrCreateConversation calls between their two requests
  last,              \* what unfollowUser or getOrCreateConversation returned, when
                     \* the last request was the return of one of them
  messages,          \* rows [id, conversation_id, sender_id, created_at]
  msgSeq,            \* next fresh row id of messages
  updated_at,        \* conversations.updated_at: conversation id -> instant
  now,               \* the server clock that now() reads
  sendCalls,         \* sendMessage calls between their two requests
  groups,            \* rows [id, created_by]
  group_members,     \* rows [group_id, profile_id, role]
  group_messages,    \* rows [id, group_id, sender_id]
  groupSeq,          \* next fresh row id of groups and of group_messages
  policySet,         \* which SELECT policy of group_members is installed
  rewriting,         \* relations whose policies the query rewriter is expanding
  groupLast,         \* what createGroup returned, when the last request was its return
  posts,             \* rows [id, author_id, likes_count, comments_count]
  likes,             \* rows [id, post_id, user_id]
  comments,          \* rows [id, post_id, author_id]
  feedSeq,           \* next fresh row id of posts, likes and comments
  profiles,          \* rows [id, user_id]
  profileSeq,        \* next fresh row id of profiles
  initializeCalls,   \* the two initialize calls of AuthProvider: where each stands
  profile,           \* AuthProvider's profile state, 0 for null
  loading,           \* AuthProvider's loading state
  mounted,           \* the mounted flag of AuthProvider's effect
  chat_read_status,  \* rows [id, profile_id, conversation_id, group_id, last_read_at]
  readSeq,           \* next fresh row id of chat_read_status
  component,         \* which chat window is open
  windowMessages,    \* the messages state of the window: a sequence of message ids
  windowSends,       \* handleSend calls of the window between their steps
  realtime,          \* ids of stored messages whose INSERT event is not yet delivered
  windowSeq          \* next fresh message id and next fresh temporary id

chatVars == <<messages, msgSeq, updated_at, now, sendCalls>>

groupVars == <<groups, group_members, group_messages, groupSeq, policySet, rewriting,
               groupLast>>

feedVars == <<posts, likes, comments, feedSeq>>

authVars == <<profiles, profileSeq, initializeCalls, profile, loading, mounted>>

readVars == <<chat_read_status, readSeq>>

windowVars == <<component, windowMessages, windowSends, realtime, windowSeq>>

extraVars == <<feedVars, authVars, readVars, windowVars>>

vars == <<follow_requests, follows, conversations, seq, unfollowCalls, convCalls, last,
          chatVars, groupVars, extraVars>>

\* ------------------------------------------------------- identity resolver
get_my_profile_id(caller) == caller

\* ------------------------------------------------- follow_requests: schema
FollowRequestRow(id, s, r, st) ==
  [id |-> id, sender_id |-> s, receiver_id |-> r, status |-> st]

\* CHECK (sender_id != receiver_id)
follow_requests_check(row) == row.sender_id # row.receiver_id

\* the table without its UNIQUE(sender_id, receiver_id) constraint
follow_requests_no_unique(rows, row) == FALSE

\* UNIQUE(sender_id, receiver_id): TRUE iff row collides with another row
follow_requests_unique_conflict(rows, row) ==
  \E x \in rows : /\ x.id # row.id
                  /\ x.sender_id = row.sender_id
                  /\ x.receiver_id = row.receiver_id

\* ----------------------------------------------- follow_requests: policies
UsersCanViewTheirOwnFollowRequests(me, row) ==
  row.sender_id = get_my_profile_id(me) \/ row.receiver_id = get_my_profile_id(me)

UsersCanSendFollowRequests(me, row) == row.sender_id = get_my_profile_id(me)

ReceiversCanUpdateRequestStatus(me, row) == row.receiver_id = get_my_profile_id(me)

SendersCanUpdateUsing(me, row) == row.sender_id = get_my_profile_id(me)

SendersCanUpdateCheck(me, row) ==
  row.sender_id = get_my_profile_id(me) /\ row.status = "pending"

\* follow_requests before the sender DELETE policy was added
NoSenderDeletePolicy(me, row) == FALSE

UsersCanDeleteTheirOwnSentFollowRequests(me, row) ==
  row.sender_id = get_my_profile_id(me)

ReceiversCanDeleteFollowRequests(me, row) ==
  row.receiver_id = get_my_profile_id(me)

\* permissive policies of one command are OR-ed; a policy without WITH CHECK
\* applies its USING expression to the new row
FollowRequestsUpdateUsing(me, row) ==
  ReceiversCanUpdateRequestStatus(me, row) \/ SendersCanUpdateUsing(me, row)

\* UPDATE with no check of the new row
FollowRequestsUpdateNoCheck(me, row) == TRUE

FollowRequestsUpdateCheck(me, row) ==
  ReceiversCanUpdateRequestStatus(me, row) \/ SendersCanUpdateCheck(me, row)

FollowRequestsDeleteUsing(me, row) ==
  \/ UsersCanDeleteTheirOwnSentFollowRequests(me, row)
  \/ ReceiversCanDeleteFollowRequests(me, row)

\* ---------------------------------------------------------------- follows
FollowRow(id, f, g) == [id |-> id, follower_id |-> f, following_id |-> g]

\* CHECK (follower_id != following_id)
follows_check(row) == row.follower_id # row.following_id

\* UNIQUE(follower_id, following_id)
follows_unique_conflict(rows, f, g) ==
  \E x \in rows : x.follower_id = f /\ x.following_id = g

\* "Users can follow others" was dropped; the INSERT policy left in force
\* the INSERT policy "Users can follow others" that the later migration drops
UsersCanFollowOthers(me, row) == row.follower_id = get_my_profile_id(me)

FollowsAreSystemManagedViaRequests(me, row) == FALSE

UsersCanUnfollow(me, row) == row.follower_id = get_my_profile_id(me)

\* the trigger without ON CONFLICT DO NOTHING on a table without UNIQUE
handle_follow_request_acceptance_no_conflict_clause(old, new, rows, fid) ==
  IF new.status = "accepted" /\ old.status = "pending"
  THEN rows \cup {FollowRow(fid, new.sender_id, new.receiver_id)}
  ELSE rows

\* AFTER UPDATE trigger on follow_requests (SECURITY DEFINER): the follows
\* rows after the trigger ran for the updated row
handle_follow_request_acceptance(old, new, rows, fid) ==
  IF new.status = "accepted" /\ old.status = "pending"
  THEN IF follows_unique_conflict(rows, new.sender_id, new.receiver_id)
       THEN rows
       ELSE rows \cup {FollowRow(fid, new.sender_id, new.receiver_id)}
  ELSE rows

isFollowing(followerId, followingId) ==
  \E f \in follows : f.follower_id = followerId /\ f.following_id = followingId

areMutualFollowers(profileId1, profileId2) ==
  LET follows1 == isFollowing(profileId1, profileId2)
      follows2 == isFollowing(profileId2, profileId1)
  IN  follows1 /\ follows2

\* the join on one column only
are_mutual_followers_half_join(profile_1, profile_2) ==
  \E f1 \in follows : \E f2 \in follows :
     /\ f1.follower_id = f2.following_id
     /\ f1.follower_id = profile_1 /\ f1.following_id = profile_2

are_mutual_followers(profile_1, profile_2) ==
  \E f1 \in follows : \E f2 \in follows :
     /\ f1.follower_id = f2.following_id /\ f1.following_id = f2.follower_id
     /\ f1.follower_id = profile_1 /\ f1.following_id = profile_2

\* ---------------------------------------------------------- conversations
ConversationRow(id, u1, u2) == [id |-> id, user_1 |-> u1, user_2 |-> u2]

\* the table without its CHECK (user_1 < user_2)
conversations_no_check(row) == TRUE

\* CHECK (user_1 < user_2)
conversations_check(row) == row.user_1 < row.user_2

\* UNIQUE(user_1, user_2)
conversations_unique_conflict(rows, row) ==
  \E x \in rows : x.id # row.id /\ x.user_1 = row.user_1 /\ x.user_2 = row.user_2

UsersCanViewOwnConversations(me, row) ==
  row.user_1 = get_my_profile_id(me) \/ row.user_2 = get_my_profile_id(me)

UsersCanViewTheirOwnConversations(me, row) ==
  row.user_1 = get_my_profile_id(me) \/ row.user_2 = get_my_profile_id(me)

MutualFollowersCanCreateConversations(me, row) ==
  /\ (row.user_1 = get_my_profile_id(me) \/ row.user_2 = get_my_profile_id(me))
  /\ are_mutual_followers(row.user_1, row.user_2)

UsersCanCreateConversations(me, row) ==
  row.user_1 = get_my_profile_id(me) \/ row.user_2 = get_my_profile_id(me)

UsersCanUpdateTheirOwnConversations(me, row) ==
  row.user_1 = get_my_profile_id(me) \/ row.user_2 = get_my_profile_id(me)

ConversationsInsertCheck(me, row) ==
  MutualFollowersCanCreateConversations(me, row) \/ UsersCanCreateConversations(me, row)

\* ------------------------------------------------------------ bookkeeping
Result(op, caller, err, a, b, id) ==
  [op |-> op, caller |-> caller, err |-> err, a |-> a, b |-> b, id |-> id,
   overlapped |-> FALSE]

None == Result("none", 0, OK, 0, 0, 0)

\* an unfollowUser call between its two requests sees the writes of others
Overlap(calls) == {[c EXCEPT !.overlapped = TRUE] : c \in calls}

Returns(rec) ==
  /\ last' = rec
  /\ unfollowCalls' = IF follows' # follows \/ follow_requests' # follow_requests
                      THEN Overlap(unfollowCalls) ELSE unfollowCalls

\* a request that is rejected, or that matches no row, changes no row
Rejected ==
  /\ UNCHANGED <<follow_requests, follows, conversations, seq, convCalls>>
  /\ Returns(None)

\* no message, no conversation timestamp, the clock at its first instant
InitChatTables ==
  /\ messages = {}
  /\ msgSeq = 1
  /\ updated_at = <<>>
  /\ now = 0
  /\ sendCalls = {}

\* no group; the policies of the recursion fix are installed and no query
\* is being rewritten
InitGroupTables ==
  /\ groups = {}
  /\ group_members = {}
  /\ group_messages = {}
  /\ groupSeq = [groups |-> 1, group_messages |-> 1]
  /\ policySet = "helper"
  /\ rewriting = <<>>
  /\ groupLast = [op |-> "none", caller |-> 0, err |-> OK, id |-> 0]

\* the two places that call initialize: the getSession() promise and the
\* onAuthStateChange subscription
InitializeCalls == {"getSession", "onAuthStateChange"}

\* no post, like, comment, profile or read status row; the provider as
\* useState and the effect leave it (profile null, loading true, mounted true,
\* neither initialize call started); a ChatWindow right after its messages
\* are loaded (an empty list, no send under way, no event in flight)
InitExtraTables ==
  /\ posts = {}
  /\ likes = {}
  /\ comments = {}
  /\ feedSeq = [posts |-> 1, comments |-> 1]
  /\ profiles = {}
  /\ profileSeq = 1
  /\ initializeCalls = [i \in InitializeCalls |-> [pc |-> "idle", user |-> 0, p |-> 0]]
  /\ profile = 0
  /\ loading = TRUE
  /\ mounted = TRUE
  /\ chat_read_status = {}
  /\ readSeq = 1
  /\ component = "ChatWindow"
  /\ windowMessages = <<>>
  /\ windowSends = {}
  /\ realtime = {}
  /\ windowSeq = [messages |-> 1, tempId |-> 1]

Init ==
  /\ InitChatTables
  /\ InitGroupTables
  /\ InitExtraTables
  /\ follow_requests = {}
  /\ follows = {}
  /\ conversations = {}
  /\ seq = [follow_requests |-> 1, follows |-> 1, conversations |-> 1]
  /\ unfollowCalls = {}
  /\ convCalls = {}
  /\ last = None

\* ------------------------------------------- requests on follow_requests
\* the outcome of INSERT INTO follow_requests for the row: the INSERT policy,
\* then the constraints
InsertRowError(caller, row) ==
  IF ~UsersCanSendFollowRequests(caller, row) THEN RLS_VIOLATION
  ELSE IF ~follow_requests_check(row) THEN CHECK_VIOLATION
  ELSE IF follow_requests_unique_conflict(follow_requests, row) THEN UNIQUE_VIOLATION
  ELSE OK

\* INSERT INTO follow_requests (sender_id, receiver_id, status)
InsertFollowRequest(caller, s) ==
  IF \A r \in Profiles, st \in Statuses :
        InsertRowError(caller, FollowRequestRow(seq.follow_requests, s, r, st)) # OK
  THEN Rejected
  ELSE \E r \in Profiles, st \in Statuses :
         LET row == FollowRequestRow(seq.follow_requests, s, r, st)
         IN  /\ InsertRowError(caller, row) = OK
             /\ seq.follow_requests <= MaxRequestRows
             /\ follow_requests' = follow_requests \cup {row}
             /\ seq' = [seq EXCEPT !.follow_requests = @ + 1]
             /\ UNCHANGED <<follows, conversations, convCalls>>
             /\ Returns(None)

\* the outcome of UPDATE follow_requests SET ... for one existing row that
\* becomes new: policies on the new row, then the constraints
UpdateRowError(caller, new) ==
  IF ~(FollowRequestsUpdateCheck(caller, new)
       /\ UsersCanViewTheirOwnFollowRequests(caller, new)) THEN RLS_VIOLATION
  ELSE IF ~follow_requests_check(new) THEN CHECK_VIOLATION
  ELSE IF follow_requests_unique_conflict(follow_requests, new) THEN UNIQUE_VIOLATION
  ELSE OK

\* the row old is replaced by new and the AFTER UPDATE trigger runs
ApplyUpdate(old, new) ==
  LET after == handle_follow_request_acceptance(old, new, follows, seq.follows)
  IN  /\ after # follows => seq.follows <= MaxFollowRows
      /\ follow_requests' = (follow_requests \ {old}) \cup {new}
      /\ follows' = after
      /\ seq' = IF after # follows THEN [seq EXCEPT !.follows = @ + 1] ELSE seq
      /\ UNCHANGED <<conversations, convCalls>>
      /\ Returns(None)

\* rows of an UPDATE ... WHERE id = requestId that the caller may touch
UpdatableRequests(caller, requestId) ==
  {x \in follow_requests : /\ x.id = requestId
                           /\ UsersCanViewTheirOwnFollowRequests(caller, x)
                           /\ FollowRequestsUpdateUsing(caller, x)}

\* the error handleFollowRequest gets back and throws, OK when it gets none
handleFollowRequestError(caller, requestId, status) ==
  LET rows == UpdatableRequests(caller, requestId)
  IN  IF rows = {} THEN OK
      ELSE LET old == CHOOSE x \in rows : TRUE
           IN  UpdateRowError(caller, [old EXCEPT !.status = status])

\* supabase.from('follow_requests').update({ status }).eq('id', requestId)
handleFollowRequest(caller, requestId, status) ==
  LET rows == UpdatableRequests(caller, requestId)
  IN  IF rows = {} \/ handleFollowRequestError(caller, requestId, status) # OK
      THEN Rejected
      ELSE \E old \in rows : ApplyUpdate(old, [old EXCEPT !.status = status])

\* UPDATE follow_requests SET sender_id, receiver_id, status WHERE id
UpdateFollowRequest(caller, requestId) ==
  LET rows == UpdatableRequests(caller, requestId)
  IN  IF rows = {} THEN Rejected
      ELSE \E old \in rows, s \in Profiles, r \in Profiles, st \in Statuses :
             LET new == FollowRequestRow(old.id, s, r, st)
             IN  /\ UpdateRowError(caller, new) = OK
                 /\ ApplyUpdate(old, new)

\* upsert({sender_id, receiver_id, status: 'pending'},
\*        {onConflict: 'sender_id,receiver_id'}); an error is thrown
sendFollowRequest(caller, senderId, receiverId) ==
  LET proposed == FollowRequestRow(seq.follow_requests, senderId, receiverId, "pending")
      existing == {x \in follow_requests :
                     x.sender_id = senderId /\ x.receiver_id = receiverId}
  IN  IF ~UsersCanSendFollowRequests(caller, proposed) \/ ~follow_requests_check(proposed)
      THEN Rejected
      ELSE IF existing = {}
      THEN /\ seq.follow_requests <= MaxRequestRows
           /\ follow_requests' = follow_requests \cup {proposed}
           /\ seq' = [seq EXCEPT !.follow_requests = @ + 1]
           /\ UNCHANGED <<follows, conversations, convCalls>>
           /\ Returns(None)
      ELSE \E old \in existing :
             LET new == FollowRequestRow(old.id, senderId, receiverId, "pending")
             IN  IF /\ UsersCanViewTheirOwnFollowRequests(caller, old)
                    /\ FollowRequestsUpdateUsing(caller, old)
                    /\ UpdateRowError(caller, new) = OK
                 THEN ApplyUpdate(old, new)
                 ELSE Rejected

DeleteRequests(rows) ==
  IF rows = {} THEN Rejected
  ELSE /\ follow_requests' = follow_requests \ rows
       /\ UNCHANGED <<follows, conversations, seq, convCalls>>
       /\ Returns(None)

\* delete().eq('sender_id').eq('receiver_id').eq('status', 'pending')
cancelFollowRequest(caller, senderId, receiverId) ==
  DeleteRequests(
    {x \in follow_requests : /\ x.sender_id = senderId
                             /\ x.receiver_id = receiverId
                             /\ x.status = "pending"
                             /\ UsersCanViewTheirOwnFollowRequests(caller, x)
                             /\ FollowRequestsDeleteUsing(caller, x)})

\* DELETE FROM follow_requests WHERE id
DeleteFollowRequest(caller, requestId) ==
  DeleteRequests(
    {x \in follow_requests : /\ x.id = requestId
                             /\ UsersCanViewTheirOwnFollowRequests(caller, x)
                             /\ FollowRequestsDeleteUsing(caller, x)})

\* --------------------------------------------------- requests on follows
\* the outcome of INSERT INTO follows for the row
followsInsertError(caller, row) ==
  IF ~FollowsAreSystemManagedViaRequests(caller, row) THEN RLS_VIOLATION
  ELSE IF ~follows_check(row) THEN CHECK_VIOLATION
  ELSE IF follows_unique_conflict(follows, row.follower_id, row.following_id)
       THEN UNIQUE_VIOLATION
  ELSE OK

\* supabase.from('follows').insert({follower_id, following_id}); the error
\* is thrown to the caller unless its code is 23505
followUser(caller, followerId, followingId) ==
  LET row == FollowRow(seq.follows, followerId, followingId)
  IN  IF followsInsertError(caller, row) # OK THEN Rejected
      ELSE /\ seq.follows <= MaxFollowRows
           /\ follows' = follows \cup {row}
           /\ seq' = [seq EXCEPT !.follows = @ + 1]
           /\ UNCHANGED <<follow_requests, conversations, convCalls>>
           /\ Returns(None)

\* rows of DELETE FROM follows WHERE follower_id AND following_id
DeletableFollows(caller, followerId, followingId) ==
  {f \in follows : /\ f.follower_id = followerId
                   /\ f.following_id = followingId
                   /\ UsersCanUnfollow(caller, f)}

\* unfollowUser of the first follows library: one delete on follows
unfollowUserFollowsOnly(caller, followerId, followingId) ==
  LET rows == DeletableFollows(caller, followerId, followingId)
  IN  IF rows = {} THEN Rejected
      ELSE /\ follows' = follows \ rows
           /\ UNCHANGED <<follow_requests, conversations, seq, convCalls>>
           /\ Returns(None)

\* every request a caller can make on follow_requests and follows
LedgerRequestBy(c) ==
  \/ \E s \in Profiles : InsertFollowRequest(c, s)
  \/ \E s \in Profiles, r \in Profiles : sendFollowRequest(c, s, r)
  \/ \E id \in 1..MaxRequestRows, st \in {"accepted", "rejected"} :
       handleFollowRequest(c, id, st)
  \/ \E id \in 1..MaxRequestRows : UpdateFollowRequest(c, id)
  \/ \E s \in Profiles, r \in Profiles : cancelFollowRequest(c, s, r)
  \/ \E id \in 1..MaxRequestRows : DeleteFollowRequest(c, id)
  \/ \E f \in Profiles, g \in Profiles : followUser(c, f, g)
  \/ \E f \in Profiles, g \in Profiles : unfollowUserFollowsOnly(c, f, g)

NextLedger ==
  \/ /\ \E c \in Profiles, s \in Profiles : InsertFollowRequest(c, s)
     /\ UNCHANGED <<chatVars, groupVars, extraVars>>
  \/ /\ \E c \in Profiles, s \in Profiles, r \in Profiles : sendFollowRequest(c, s, r)
     /\ UNCHANGED <<chatVars, groupVars, extraVars>>
  \/ /\ \E c \in Profiles, id \in 1..MaxRequestRows, st \in {"accepted", "rejected"} :
          handleFollowRequest(c, id, st)
     /\ UNCHANGED <<chatVars, groupVars, extraVars>>
  \/ /\ \E c \in Profiles, id \in 1..MaxRequestRows : UpdateFollowRequest(c, id)
     /\ UNCHANGED <<chatVars, groupVars, extraVars>>
  \/ /\ \E c \in Profiles, s \in Profiles, r \in Profiles : cancelFollowRequest(c, s, r)
     /\ UNCHANGED <<chatVars, groupVars, extraVars>>
  \/ /\ \E c \in Profiles, id \in 1..MaxRequestRows : DeleteFollowRequest(c, id)
     /\ UNCHANGED <<chatVars, groupVars, extraVars>>
  \/ /\ \E c \in Profiles, f \in Profiles, g \in Profiles : followUser(c, f, g)
     /\ UNCHANGED <<chatVars, groupVars, extraVars>>
  \/ /\ \E c \in Profiles, f \in Profiles, g \in Profiles : unfollowUserFollowsOnly(c, f, g)
     /\ UNCHANGED <<chatVars, groupVars, extraVars>>

SpecLedger == Init /\ [][NextLedger]_vars

\* ------------------------------------------- unfollowUser of storage.ts
UnfollowCall(caller, followerId, followingId) ==
  [caller |-> caller, followerId |-> followerId, followingId |-> followingId,
   overlapped |-> FALSE]

\* first request of unfollowUser: delete on follows; no row is no error, so
\* the call goes on to its second request
unfollowUserDeleteFollows(caller, followerId, followingId) ==
  /\ Cardinality(unfollowCalls) < MaxUnfollowCalls
  /\ follows' = follows \ DeletableFollows(caller, followerId, followingId)
  /\ unfollowCalls' = (IF follows' # follows THEN Overlap(unfollowCalls) ELSE unfollowCalls)
                        \cup {UnfollowCall(caller, followerId, followingId)}
  /\ last' = None
  /\ UNCHANGED <<follow_requests, conversations, seq, convCalls>>

\* rows of DELETE FROM follow_requests WHERE sender_id AND receiver_id
DeletableRequests(caller, senderId, receiverId) ==
  {x \in follow_requests : /\ x.sender_id = senderId
                           /\ x.receiver_id = receiverId
                           /\ UsersCanViewTheirOwnFollowRequests(caller, x)
                           /\ FollowRequestsDeleteUsing(caller, x)}

\* second request of unfollowUser: delete on follow_requests, its error is
\* not looked at; then the call returns
unfollowUserDeleteRequest(call) ==
  /\ call \in unfollowCalls
  /\ follow_requests' = follow_requests
                          \ DeletableRequests(call.caller, call.followerId, call.followingId)
  /\ unfollowCalls' = IF follow_requests' # follow_requests
                      THEN Overlap(unfollowCalls \ {call}) ELSE unfollowCalls \ {call}
  /\ last' = [Result("unfollowUser", call.caller, OK, call.followerId, call.followingId, 0)
                EXCEPT !.overlapped = call.overlapped]
  /\ UNCHANGED <<follows, conversations, seq, convCalls>>

\* the client library as the pages call it: the signed-in profile is the
\* first argument
NextUnfollow ==
  \/ /\ \E c \in Profiles, r \in Profiles : sendFollowRequest(c, c, r)
     /\ UNCHANGED <<chatVars, groupVars, extraVars>>
  \/ /\ \E c \in Profiles, id \in 1..MaxRequestRows, st \in {"accepted", "rejected"} :
          handleFollowRequest(c, id, st)
     /\ UNCHANGED <<chatVars, groupVars, extraVars>>
  \/ /\ \E c \in Profiles, r \in Profiles : cancelFollowRequest(c, c, r)
     /\ UNCHANGED <<chatVars, groupVars, extraVars>>
  \/ /\ \E c \in Profiles, g \in Profiles : unfollowUserDeleteFollows(c, c, g)
     /\ UNCHANGED <<chatVars, groupVars, extraVars>>
  \/ /\ \E call \in unfollowCalls : unfollowUserDeleteRequest(call)
     /\ UNCHANGED <<chatVars, groupVars, extraVars>>

SpecUnfollow == Init /\ [][NextUnfollow]_vars

\* ------------------------------------------------------- conversations
\* the arguments in the order given
unsortedUsers(user1, user2) == <<user1, user2>>

\* const [sortedUser1, sortedUser2] = user1 < user2 ? [user1, user2] : [user2, user1]
sortedUsers(user1, user2) == IF user1 < user2 THEN <<user1, user2>> ELSE <<user2, user1>>

\* the outcome of INSERT INTO conversations for the row
ConversationInsertError(caller, row) ==
  IF ~ConversationsInsertCheck(caller, row) THEN RLS_VIOLATION
  ELSE IF ~conversations_check(row) THEN CHECK_VIOLATION
  ELSE IF conversations_unique_conflict(conversations, row) THEN UNIQUE_VIOLATION
  ELSE OK

\* the new row is stored under the next id
StoreConversation(row) ==
  /\ seq.conversations <= MaxConversationRows
  /\ conversations' = conversations \cup {row}
  /\ seq' = [seq EXCEPT !.conversations = @ + 1]
  /\ UNCHANGED <<follow_requests, follows, unfollowCalls>>

\* INSERT INTO conversations (user_1, user_2)
InsertConversation(caller, u1, u2) ==
  LET row == ConversationRow(seq.conversations, u1, u2)
  IN  IF ConversationInsertError(caller, row) # OK THEN Rejected
      ELSE StoreConversation(row) /\ last' = None /\ UNCHANGED convCalls

\* the outcome of UPDATE conversations for one row that becomes new: the
\* UPDATE policy has no WITH CHECK, so its USING applies to the new row
ConversationUpdateError(caller, new) ==
  IF ~(UsersCanUpdateTheirOwnConversations(caller, new)
       /\ (UsersCanViewOwnConversations(caller, new)
           \/ UsersCanViewTheirOwnConversations(caller, new))) THEN RLS_VIOLATION
  ELSE IF ~conversations_check(new) THEN CHECK_VIOLATION
  ELSE IF conversations_unique_conflict(conversations, new) THEN UNIQUE_VIOLATION
  ELSE OK

VisibleConversations(caller) ==
  {x \in conversations : \/ UsersCanViewOwnConversations(caller, x)
                         \/ UsersCanViewTheirOwnConversations(caller, x)}

\* UPDATE conversations SET user_1, user_2 WHERE id
UpdateConversation(caller, id, u1, u2) ==
  LET rows == {x \in VisibleConversations(caller) :
                 x.id = id /\ UsersCanUpdateTheirOwnConversations(caller, x)}
      new  == ConversationRow(id, u1, u2)
  IN  IF rows = {} \/ ConversationUpdateError(caller, new) # OK THEN Rejected
      ELSE /\ conversations' = (conversations \ rows) \cup {new}
           /\ last' = None
           /\ UNCHANGED <<follow_requests, follows, seq, unfollowCalls, convCalls>>

ConvCall(caller, user1, user2) == [caller |-> caller, user1 |-> user1, user2 |-> user2]

\* getOrCreateConversation up to its lookup: the row found is returned, and
\* with no row found the call goes on to its insert
getOrCreateConversationLookup(caller, user1, user2) ==
  LET sorted   == sortedUsers(user1, user2)
      existing == {x \in VisibleConversations(caller) :
                     x.user_1 = sorted[1] /\ x.user_2 = sorted[2]}
  IN  /\ UNCHANGED <<follow_requests, follows, conversations, seq, unfollowCalls>>
      /\ IF existing # {}
         THEN /\ \E x \in existing :
                   last' = Result("getOrCreateConversation", caller, OK, user1, user2, x.id)
              /\ UNCHANGED convCalls
         ELSE /\ Cardinality(convCalls) < MaxConvCalls
              /\ ConvCall(caller, user1, user2) \notin convCalls
              /\ convCalls' = convCalls \cup {ConvCall(caller, user1, user2)}
              /\ last' = None

\* getOrCreateConversation from its insert on: the error is thrown, else the
\* inserted row is returned
getOrCreateConversationInsert(call) ==
  LET sorted == sortedUsers(call.user1, call.user2)
      row    == ConversationRow(seq.conversations, sorted[1], sorted[2])
      err    == ConversationInsertError(call.caller, row)
  IN  /\ call \in convCalls
      /\ convCalls' = convCalls \ {call}
      /\ IF err # OK
         THEN /\ UNCHANGED <<follow_requests, follows, conversations, seq, unfollowCalls>>
              /\ last' = Result("getOrCreateConversation", call.caller, err,
                                call.user1, call.user2, 0)
         ELSE /\ StoreConversation(row)
              /\ last' = Result("getOrCreateConversation", call.caller, OK,
                                call.user1, call.user2, row.id)

\* profiles 1 and 2 follow each other through accepted requests, profile 3
\* follows nobody and has no follower
InitConv ==
  /\ InitChatTables
  /\ InitGroupTables
  /\ InitExtraTables
  /\ follow_requests = {FollowRequestRow(1, 1, 2, "accepted"),
                        FollowRequestRow(2, 2, 1, "accepted")}
  /\ follows = {FollowRow(1, 1, 2), FollowRow(2, 2, 1)}
  /\ conversations = {}
  /\ seq = [follow_requests |-> 3, follows |-> 3, conversations |-> 1]
  /\ unfollowCalls = {}
  /\ convCalls = {}
  /\ last = None

NextConv ==
  \/ /\ \E c \in Profiles, u1 \in Profiles, u2 \in Profiles : InsertConversation(c, u1, u2)
     /\ UNCHANGED <<chatVars, groupVars, extraVars>>
  \/ /\ \E c \in Profiles, id \in 1..MaxConversationRows, u1 \in Profiles, u2 \in Profiles :
          UpdateConversation(c, id, u1, u2)
     /\ UNCHANGED <<chatVars, groupVars, extraVars>>
  \/ /\ \E c \in Profiles : \E o \in Profiles \ {c} : getOrCreateConversationLookup(c, c, o)
     /\ UNCHANGED <<chatVars, groupVars, extraVars>>
  \/ /\ \E call \in convCalls : getOrCreateConversationInsert(call)
     /\ UNCHANGED <<chatVars, groupVars, extraVars>>
  \/ /\ \E c \in Profiles, g \in Profiles : unfollowUserFollowsOnly(c, c, g)
     /\ UNCHANGED <<chatVars, groupVars, extraVars>>

SpecConv == InitConv /\ [][NextConv]_vars

\* ----------------------------------------------------------- messages
MessageRow(id, conversationId, senderId, createdAt) ==
  [id |-> id, conversation_id |-> conversationId, sender_id |-> senderId,
   created_at |-> createdAt]

\* the subquery without its test of the caller
InAnyConversation(me, conversationId) ==
  \E c \in conversations : c.id = conversationId

\* EXISTS (SELECT 1 FROM conversations c WHERE c.id = conversation_id AND
\* (c.user_1 = me OR c.user_2 = me)); the subquery reads conversations
\* under the caller's own row-level security
InOwnConversation(me, conversationId) ==
  \E c \in VisibleConversations(me) :
     /\ c.id = conversationId
     /\ (c.user_1 = get_my_profile_id(me) \/ c.user_2 = get_my_profile_id(me))

\* SELECT policy of the first migration
UsersCanViewMessagesInTheirConversations(me, row) ==
  InOwnConversation(me, row.conversation_id)

\* SELECT policy of the chat improvements
UsersCanViewMessagesInTheirConversationsChat(me, row) ==
  InOwnConversation(me, row.conversation_id)

\* INSERT policy of the first migration
UsersCanSendMessagesInTheirConversations(me, row) ==
  /\ row.sender_id = get_my_profile_id(me)
  /\ InOwnConversation(me, row.conversation_id)

\* INSERT policy of the chat improvements
UsersCanSendMessagesToTheirConversations(me, row) ==
  /\ row.sender_id = get_my_profile_id(me)
  /\ InOwnConversation(me, row.conversation_id)

\* reading gated by are_mutual_followers as well
MessagesSelectUsingMutual(me, row) ==
  \E c \in VisibleConversations(me) :
     /\ c.id = row.conversation_id
     /\ (c.user_1 = get_my_profile_id(me) \/ c.user_2 = get_my_profile_id(me))
     /\ are_mutual_followers(c.user_1, c.user_2)

MessagesSelectUsing(me, row) ==
  \/ UsersCanViewMessagesInTheirConversations(me, row)
  \/ UsersCanViewMessagesInTheirConversationsChat(me, row)

MessagesInsertCheck(me, row) ==
  \/ UsersCanSendMessagesInTheirConversations(me, row)
  \/ UsersCanSendMessagesToTheirConversations(me, row)

\* getMessages: the rows of the conversation the caller may read; a row the
\* policies hide is left out without an error
getMessages(caller, conversationId) ==
  {m \in messages : m.conversation_id = conversationId /\ MessagesSelectUsing(caller, m)}

\* the outcome of INSERT INTO messages for the row
MessageInsertError(caller, row) ==
  IF ~MessagesInsertCheck(caller, row) THEN RLS_VIOLATION ELSE OK

ledgerVars == <<follow_requests, follows, seq, unfollowCalls, convCalls, last>>

\* a request on the chat tables that is rejected changes nothing
ChatRejected == UNCHANGED <<ledgerVars, conversations, chatVars>>

\* the row is stored under the next id, created_at DEFAULT now()
StoreMessage(row) ==
  /\ msgSeq <= MaxMessageRows
  /\ messages' = messages \cup {row}
  /\ msgSeq' = msgSeq + 1
  /\ UNCHANGED <<ledgerVars, conversations, updated_at, now>>

\* INSERT INTO messages (conversation_id, sender_id, content)
InsertMessage(caller, conversationId, senderId) ==
  LET row == MessageRow(msgSeq, conversationId, senderId, now)
  IN  IF MessageInsertError(caller, row) # OK THEN ChatRejected
      ELSE StoreMessage(row) /\ UNCHANGED sendCalls

SendCall(caller, conversationId) == [caller |-> caller, conversationId |-> conversationId]

\* sendMessage up to its insert: the error is thrown, else the call goes on
\* to update the conversation
sendMessageInsert(caller, conversationId, senderId) ==
  LET row == MessageRow(msgSeq, conversationId, senderId, now)
  IN  IF MessageInsertError(caller, row) # OK THEN ChatRejected
      ELSE /\ Cardinality(sendCalls) < MaxSendCalls
           /\ StoreMessage(row)
           /\ sendCalls' = sendCalls \cup {SendCall(caller, conversationId)}

\* rows of UPDATE conversations ... WHERE id that the caller may touch
UpdatableConversations(caller, id) ==
  {x \in VisibleConversations(caller) :
     x.id = id /\ UsersCanUpdateTheirOwnConversations(caller, x)}

\* BEFORE UPDATE trigger update_conversations_updated_at: whatever the
\* request sets, the updated row gets updated_at = now()
update_updated_at_column(stamps, id) == [stamps EXCEPT ![id] = now]

\* sendMessage from its update on: conversations.update({updated_at}).eq('id');
\* the outcome is not looked at, the call returns the inserted message
sendMessageUpdate(call) ==
  /\ call \in sendCalls
  /\ sendCalls' = sendCalls \ {call}
  /\ updated_at' = IF UpdatableConversations(call.caller, call.conversationId) # {}
                   THEN update_updated_at_column(updated_at, call.conversationId)
                   ELSE updated_at
  /\ UNCHANGED <<ledgerVars, conversations, messages, msgSeq, now>>

\* INSERT INTO conversations with updated_at DEFAULT now()
ChatInsertConversation(caller, u1, u2) ==
  /\ InsertConversation(caller, u1, u2)
  /\ updated_at' = IF conversations' # conversations
                   THEN [i \in DOMAIN updated_at \cup {seq.conversations} |->
                           IF i = seq.conversations THEN now ELSE updated_at[i]]
                   ELSE updated_at
  /\ UNCHANGED <<messages, msgSeq, now, sendCalls>>

\* UPDATE conversations SET user_1, user_2 WHERE id, with its trigger
ChatUpdateConversation(caller, id, u1, u2) ==
  /\ UpdateConversation(caller, id, u1, u2)
  /\ updated_at' = IF /\ UpdatableConversations(caller, id) # {}
                      /\ ConversationUpdateError(caller, ConversationRow(id, u1, u2)) = OK
                   THEN update_updated_at_column(updated_at, id)
                   ELSE updated_at
  /\ UNCHANGED <<messages, msgSeq, now, sendCalls>>

\* the server clock advances
Tick ==
  /\ now < MaxTime
  /\ now' = now + 1
  /\ UNCHANGED <<ledgerVars, conversations, messages, msgSeq, updated_at, sendCalls>>

NextChat ==
  \/ /\ \E c \in Profiles, u1 \in Profiles, u2 \in Profiles : ChatInsertConversation(c, u1, u2)
     /\ UNCHANGED <<groupVars, extraVars>>
  \/ /\ \E c \in Profiles, id \in 1..MaxConversationRows, u1 \in Profiles, u2 \in Profiles :
          ChatUpdateConversation(c, id, u1, u2)
     /\ UNCHANGED <<groupVars, extraVars>>
  \/ /\ \E c \in Profiles, id \in 1..MaxConversationRows, s \in Profiles :
          InsertMessage(c, id, s)
     /\ UNCHANGED <<groupVars, extraVars>>
  \/ /\ \E c \in Profiles, id \in 1..MaxConversationRows : sendMessageInsert(c, id, c)
     /\ UNCHANGED <<groupVars, extraVars>>
  \/ /\ \E call \in sendCalls : sendMessageUpdate(call)
     /\ UNCHANGED <<groupVars, extraVars>>
  \/ /\ \E c \in Profiles, g \in Profiles : unfollowUserFollowsOnly(c, c, g)
     /\ UNCHANGED <<chatVars, groupVars, extraVars>>
  \/ /\ Tick
     /\ UNCHANGED <<groupVars, extraVars>>

SpecChat == InitConv /\ [][NextChat]_vars

\* ----------------------------------------------------------------- groups
Roles == {"member", "admin"}

GroupRow(id, createdBy) == [id |-> id, created_by |-> createdBy]

GroupMemberRow(groupId, profileId, role) ==
  [group_id |-> groupId, profile_id |-> profileId, role |-> role]

GroupMessageRow(id, groupId, senderId) ==
  [id |-> id, group_id |-> groupId, sender_id |-> senderId]

\* UNIQUE(group_id, profile_id)
group_members_unique_conflict(rows, row) ==
  \E x \in rows : x.group_id = row.group_id /\ x.profile_id = row.profile_id

\* group_id REFERENCES groups(id)
group_members_group_id_fkey(row) == \E g \in groups : g.id = row.group_id

\* ------------------------------------- groups: SECURITY DEFINER helpers
\* a helper that does not compare the group
is_group_member_of_any_group(p_group_id, p_profile_id) ==
  \E m \in group_members : m.profile_id = p_profile_id

\* the helpers read group_members with the rights of their owner: no policy
\* of group_members filters what they see
is_group_member(p_group_id, p_profile_id) ==
  \E m \in group_members : m.group_id = p_group_id /\ m.profile_id = p_profile_id

is_group_admin(p_group_id, p_profile_id) ==
  \E m \in group_members : /\ m.group_id = p_group_id
                           /\ m.profile_id = p_profile_id
                           /\ m.role = "admin"

group_has_members(p_group_id) == \E m \in group_members : m.group_id = p_group_id

\* ------------------------------------------------------ groups: policies
AnyoneCanCreateGroups(me, row) == row.created_by = get_my_profile_id(me)

GroupsAreViewableByMembers(me, row) == is_group_member(row.id, get_my_profile_id(me))

\* SELECT ... FROM groups as the caller sees it
VisibleGroups(me) == {g \in groups : GroupsAreViewableByMembers(me, g)}

GroupMembersAreViewableByGroupMembers(me, row) ==
  is_group_member(row.group_id, get_my_profile_id(me))

\* the simpler policy with the creator test not tied to the row's group
GroupMembersAreViewableByAnyCreator(me, row) ==
  \/ row.profile_id = get_my_profile_id(me)
  \/ \E g \in VisibleGroups(me) : g.created_by = get_my_profile_id(me)

\* the simpler SELECT policy: the caller's own row, or a row of a group the
\* caller created; its subquery on groups runs under the policy of groups
GroupMembersAreViewableByGroupMembersSimple(me, row) ==
  \/ row.profile_id = get_my_profile_id(me)
  \/ \E g \in VisibleGroups(me) : g.id = row.group_id /\ g.created_by = get_my_profile_id(me)

PolicySets == {"helper", "simple"}

GroupMembersSelectUsing(me, row) ==
  IF policySet = "simple" THEN GroupMembersAreViewableByGroupMembersSimple(me, row)
  ELSE GroupMembersAreViewableByGroupMembers(me, row)

AdminsCanAddMembers(me, row) ==
  \/ is_group_admin(row.group_id, get_my_profile_id(me))
  \/ ~group_has_members(row.group_id)

\* a DELETE policy that lets a member remove the own membership row
MembersCanLeave(me, row) == row.profile_id = get_my_profile_id(me)

\* row level security is enabled on group_members and no policy is defined
\* for DELETE or for UPDATE: no row passes
GroupMembersDeleteUsing(me, row) == FALSE

GroupMembersUpdateUsing(me, row) == FALSE

MembersCanViewGroupMessages(me, row) ==
  is_group_member(row.group_id, get_my_profile_id(me))

MembersCanSendGroupMessages(me, row) ==
  /\ row.sender_id = get_my_profile_id(me)
  /\ is_group_member(row.group_id, get_my_profile_id(me))

\* ------------------------------------------------------- groups: trigger
\* the trigger granting the creator a plain membership
handle_new_group_as_member(new, rows) ==
  rows \cup {GroupMemberRow(new.id, new.created_by, "member")}

\* AFTER INSERT trigger on_group_created (SECURITY DEFINER): group_members
\* after the trigger ran for the new group, ON CONFLICT DO NOTHING
handle_new_group(new, rows) ==
  LET row == GroupMemberRow(new.id, new.created_by, "admin")
  IN  IF group_members_unique_conflict(rows, row) THEN rows ELSE rows \cup {row}

\* ----------------------------------------------------- groups: requests
GroupResult(op, caller, err, id) == [op |-> op, caller |-> caller, err |-> err, id |-> id]

NoGroupCall == GroupResult("none", 0, OK, 0)

nonGroupVars == <<ledgerVars, conversations, chatVars, extraVars>>

\* a request on the group tables that is rejected, or matches no row
GroupRejected ==
  /\ UNCHANGED <<groups, group_members, group_messages, groupSeq, policySet, rewriting>>
  /\ UNCHANGED nonGroupVars

\* the outcome of INSERT INTO groups for the row
GroupInsertError(caller, row) ==
  IF ~AnyoneCanCreateGroups(caller, row) THEN RLS_VIOLATION ELSE OK

\* the row is stored under the next id and on_group_created fires
StoreGroup(row) ==
  /\ groupSeq.groups <= MaxGroupRows
  /\ groups' = groups \cup {row}
  /\ group_members' = handle_new_group(row, group_members)
  /\ groupSeq' = [groupSeq EXCEPT !.groups = @ + 1]
  /\ UNCHANGED <<group_messages, policySet, rewriting>>
  /\ UNCHANGED nonGroupVars

\* INSERT INTO groups (name, created_by) that asks for no row back
InsertGroup(caller, createdBy) ==
  LET row == GroupRow(groupSeq.groups, createdBy)
  IN  /\ groupLast' = NoGroupCall
      /\ IF GroupInsertError(caller, row) # OK THEN GroupRejected ELSE StoreGroup(row)

\* groups.insert(...).select().single(): the INSERT has a RETURNING clause,
\* so the new row must also pass the SELECT policy of groups, and it is
\* checked with the INSERT policy, before the row is stored and before the
\* AFTER INSERT trigger has added the creator's membership
createGroupError(caller, row) ==
  IF GroupInsertError(caller, row) # OK THEN GroupInsertError(caller, row)
  ELSE IF ~GroupsAreViewableByMembers(caller, row) THEN RLS_VIOLATION
  ELSE OK

\* createGroup(name, createdBy): throws the error, else returns the row
createGroup(caller, createdBy) ==
  LET row == GroupRow(groupSeq.groups, createdBy)
      err == createGroupError(caller, row)
  IN  IF err # OK
      THEN GroupRejected /\ groupLast' = GroupResult("createGroup", caller, err, 0)
      ELSE StoreGroup(row) /\ groupLast' = GroupResult("createGroup", caller, OK, row.id)

\* the outcome of INSERT INTO group_members for the row: the INSERT policy,
\* then the constraints
addGroupMemberError(caller, row) ==
  IF ~AdminsCanAddMembers(caller, row) THEN RLS_VIOLATION
  ELSE IF group_members_unique_conflict(group_members, row) THEN UNIQUE_VIOLATION
  ELSE IF ~group_members_group_id_fkey(row) THEN FOREIGN_KEY_VIOLATION
  ELSE OK

\* addGroupMember(groupId, profileId, role): throws the error
addGroupMember(caller, groupId, profileId, role) ==
  LET row == GroupMemberRow(groupId, profileId, role)
  IN  /\ groupLast' = NoGroupCall
      /\ IF addGroupMemberError(caller, row) # OK THEN GroupRejected
         ELSE /\ Cardinality(group_members) < MaxGroupMemberRows
              /\ group_members' = group_members \cup {row}
              /\ UNCHANGED <<groups, group_messages, groupSeq, policySet, rewriting>>
              /\ UNCHANGED nonGroupVars

\* rows of DELETE FROM group_members WHERE group_id AND profile_id that the
\* caller may touch
DeletableGroupMembers(caller, groupId, profileId) ==
  {m \in group_members : /\ m.group_id = groupId
                         /\ m.profile_id = profileId
                         /\ GroupMembersSelectUsing(caller, m)
                         /\ GroupMembersDeleteUsing(caller, m)}

DeleteGroupMember(caller, groupId, profileId) ==
  /\ groupLast' = NoGroupCall
  /\ group_members' = group_members \ DeletableGroupMembers(caller, groupId, profileId)
  /\ UNCHANGED <<groups, group_messages, groupSeq, policySet, rewriting>>
  /\ UNCHANGED nonGroupVars

\* rows of UPDATE group_members SET role WHERE group_id AND profile_id that
\* the caller may touch
UpdatableGroupMembers(caller, groupId, profileId) ==
  {m \in group_members : /\ m.group_id = groupId
                         /\ m.profile_id = profileId
                         /\ GroupMembersSelectUsing(caller, m)
                         /\ GroupMembersUpdateUsing(caller, m)}

UpdateGroupMember(caller, groupId, profileId, role) ==
  LET old == UpdatableGroupMembers(caller, groupId, profileId)
  IN  /\ groupLast' = NoGroupCall
      /\ group_members' = (group_members \ old) \cup {[m EXCEPT !.role = role] : m \in old}
      /\ UNCHANGED <<groups, group_messages, groupSeq, policySet, rewriting>>
      /\ UNCHANGED nonGroupVars

\* the outcome of INSERT INTO group_messages for the row
sendGroupMessageError(caller, row) ==
  IF ~MembersCanSendGroupMessages(caller, row) THEN RLS_VIOLATION
  ELSE IF ~MembersCanViewGroupMessages(caller, row) THEN RLS_VIOLATION
  ELSE OK

\* sendGroupMessage(groupId, senderId, content): throws the error
sendGroupMessage(caller, groupId, senderId) ==
  LET row == GroupMessageRow(groupSeq.group_messages, groupId, senderId)
  IN  /\ groupLast' = NoGroupCall
      /\ IF sendGroupMessageError(caller, row) # OK THEN GroupRejected
         ELSE /\ groupSeq.group_messages <= MaxGroupMessageRows
              /\ group_messages' = group_messages \cup {row}
              /\ groupSeq' = [groupSeq EXCEPT !.group_messages = @ + 1]
              /\ UNCHANGED <<groups, group_members, policySet, rewriting>>
              /\ UNCHANGED nonGroupVars

\* getGroupMessages(groupId): the rows the SELECT policy lets through
getGroupMessages(caller, groupId) ==
  {m \in group_messages : m.group_id = groupId /\ MembersCanViewGroupMessages(caller, m)}

\* ------------------------------------------- groups: policy expansion
Relations == {"groups", "group_members", "group_messages"}

Commands == {"SELECT", "INSERT"}

\* the SELECT policy of group_members as first written: its EXISTS reads
\* group_members with the caller's rights
GroupMembersSelectReadsOriginal == {"group_members"}

\* relations that the SELECT policy of group_members reads with the caller's
\* rights, outside a SECURITY DEFINER helper
GroupMembersSelectReads == IF policySet = "simple" THEN {"groups"} ELSE {}

\* the same for every policy of the three tables: the helper policies read
\* no relation with the caller's rights
PolicyReads(rel, cmd) ==
  IF rel = "group_members" /\ cmd = "SELECT" THEN GroupMembersSelectReads ELSE {}

\* the rewriter starts on a query of the caller
RewriteQuery(rel, cmd) ==
  /\ rewriting = <<>>
  /\ rewriting' = <<[rel |-> rel, cmd |-> cmd]>>
  /\ UNCHANGED <<groups, group_members, group_messages, groupSeq, policySet, groupLast>>
  /\ UNCHANGED nonGroupVars

\* a relation listed twice: "infinite recursion detected in policy"
RecursionDetected ==
  \E i \in DOMAIN rewriting, j \in DOMAIN rewriting : i # j /\ rewriting[i].rel = rewriting[j].rel

\* the policies of the relation on top are added to the query, and the
\* relations their subqueries read get their own policies in turn
ExpandPolicy(rel) ==
  /\ rewriting # <<>>
  /\ ~RecursionDetected
  /\ rel \in PolicyReads(rewriting[Len(rewriting)].rel, rewriting[Len(rewriting)].cmd)
  /\ rewriting' = Append(rewriting, [rel |-> rel, cmd |-> "SELECT"])
  /\ UNCHANGED <<groups, group_members, group_messages, groupSeq, policySet, groupLast>>
  /\ UNCHANGED nonGroupVars

\* the relation on top is done, or the query fails with the recursion error
FinishRelation ==
  /\ rewriting # <<>>
  /\ rewriting' = IF RecursionDetected THEN <<>> ELSE SubSeq(rewriting, 1, Len(rewriting) - 1)
  /\ UNCHANGED <<groups, group_members, group_messages, groupSeq, policySet, groupLast>>
  /\ UNCHANGED nonGroupVars

RECURSIVE infinite_recursion(_, _, _)
\* TRUE iff expanding the policies of rel for cmd comes back to a relation
\* that is being expanded
infinite_recursion(rel, cmd, active) ==
  \/ rel \in active
  \/ \E r \in PolicyReads(rel, cmd) : infinite_recursion(r, "SELECT", active \cup {rel})

\* the outcome of getGroupMembers(groupId)
getGroupMembersError(caller, groupId) ==
  IF infinite_recursion("group_members", "SELECT", {}) THEN INVALID_OBJECT_DEFINITION ELSE OK

\* getGroupMembers(groupId): the rows the SELECT policy lets through
getGroupMembers(caller, groupId) ==
  IF getGroupMembersError(caller, groupId) # OK THEN {}
  ELSE {m \in group_members : m.group_id = groupId /\ GroupMembersSelectUsing(caller, m)}

\* either SELECT policy of group_members may be the installed one
InitGroups ==
  /\ InitChatTables
  /\ InitExtraTables
  /\ follow_requests = {}
  /\ follows = {}
  /\ conversations = {}
  /\ seq = [follow_requests |-> 1, follows |-> 1, conversations |-> 1]
  /\ unfollowCalls = {}
  /\ convCalls = {}
  /\ last = None
  /\ groups = {}
  /\ group_members = {}
  /\ group_messages = {}
  /\ groupSeq = [groups |-> 1, group_messages |-> 1]
  /\ policySet \in PolicySets
  /\ rewriting = <<>>
  /\ groupLast = NoGroupCall

NextGroups ==
  \/ \E c \in Profiles, p \in Profiles : InsertGroup(c, p)
  \/ \E c \in Profiles : createGroup(c, c)
  \/ \E c \in Profiles, g \in 1..MaxGroupRows, p \in Profiles, r \in Roles :
       addGroupMember(c, g, p, r)
  \/ \E c \in Profiles, g \in 1..MaxGroupRows, p \in Profiles : DeleteGroupMember(c, g, p)
  \/ \E c \in Profiles, g \in 1..MaxGroupRows, p \in Profiles, r \in Roles :
       UpdateGroupMember(c, g, p, r)
  \/ \E c \in Profiles, g \in 1..MaxGroupRows, s \in Profiles : sendGroupMessage(c, g, s)
  \/ \E rel \in Relations, cmd \in Commands : RewriteQuery(rel, cmd)
  \/ \E rel \in Relations : ExpandPolicy(rel)
  \/ FinishRelation

SpecGroups == InitGroups /\ [][NextGroups]_vars

\* ------------------------------------------------ relationship ledger
FollowEdges(rows, a, b) == {f \in rows : f.follower_id = a /\ f.following_id = b}

Requests(rows, a, b) == {x \in rows : x.sender_id = a /\ x.receiver_id = b}

\* C1: a follows row comes to exist only in a step in which a follow request
\* of the same sender and receiver goes from pending to accepted (the
\* acceptance trigger), and in every state every INSERT into follows by a
\* client, whoever the caller and whatever the row, is refused.
C1_FollowsOnlyByAcceptance ==
  /\ [][\A f \in follows' \ follows :
          \E old \in follow_requests, new \in follow_requests' :
             /\ old.id = new.id
             /\ old.status = "pending" /\ new.status = "accepted"
             /\ f.follower_id = new.sender_id /\ f.following_id = new.receiver_id]_vars
  /\ [](\A c \in Profiles, f \in Profiles, g \in Profiles :
          followsInsertError(c, FollowRow(seq.follows, f, g)) # OK)

C1_Witness ==
  \E f \in follows :
     \E x \in Requests(follow_requests, f.follower_id, f.following_id) :
        x.status = "accepted"

\* C2: a step that changes the status of a follow request to accepted or
\* rejected is a request made by the receiver of that request.
C2_OnlyReceiverDecides ==
  [][\A old \in follow_requests, new \in follow_requests' :
        (/\ old.id = new.id
         /\ new.status # old.status
         /\ new.status \in {"accepted", "rejected"})
        => LedgerRequestBy(old.receiver_id)]_vars

C4_OneRequestPerPair ==
  /\ [](\A x \in follow_requests, y \in follow_requests :
          (x.sender_id = y.sender_id /\ x.receiver_id = y.receiver_id) => x = y)
  /\ [](\A x \in follow_requests : x.sender_id # x.receiver_id)
  /\ [][\A old \in follow_requests :
          (/\ old.status = "rejected"
           /\ sendFollowRequest(old.sender_id, old.sender_id, old.receiver_id))
          => follow_requests' = (follow_requests \ {old})
                                  \cup {[old EXCEPT !.status = "pending"]}]_vars

C4_Witness ==
  \E x \in follow_requests, y \in follow_requests :
     /\ x.sender_id = y.receiver_id /\ x.receiver_id = y.sender_id
     /\ x.status = "pending"

C6_MutualIffBothEdges ==
  \A a \in Profiles, b \in Profiles :
     LET both == FollowEdges(follows, a, b) # {} /\ FollowEdges(follows, b, a) # {}
     IN  /\ are_mutual_followers(a, b) = both
         /\ areMutualFollowers(a, b) = both
         /\ are_mutual_followers(a, b) = are_mutual_followers(b, a)
         /\ areMutualFollowers(a, b) = areMutualFollowers(b, a)

C6_Witness ==
  \E a \in Profiles, b \in Profiles :
     /\ are_mutual_followers(a, b) /\ areMutualFollowers(b, a)
     /\ \E c \in Profiles : FollowEdges(follows, a, c) = {} /\ c # a

C8_OneConversationPerPair ==
  /\ \A x \in conversations : x.user_1 < x.user_2
  /\ \A x \in conversations, y \in conversations :
        {x.user_1, x.user_2} = {y.user_1, y.user_2} => x = y

C8_Witness ==
  /\ Cardinality(conversations) = MaxConversationRows
  /\ \E call \in convCalls, x \in conversations :
        {call.user1, call.user2} = {x.user_1, x.user_2}

\* C9: when getOrCreateConversation has returned a row for A and B, that row
\* is the one row of the pair, stored with the lower profile first; a call
\* by a participant with (A, B) or (B, A) that follows returns the same id
\* without error and changes no conversation row.
C9_GetOrCreateIdempotent ==
  /\ []((last.op = "getOrCreateConversation" /\ last.err = OK)
        => \E x \in conversations :
              /\ x.id = last.id
              /\ x.user_1 < x.user_2 /\ {x.user_1, x.user_2} = {last.a, last.b}
              /\ \A y \in conversations :
                    {y.user_1, y.user_2} = {last.a, last.b} => y = x)
  /\ [][(last.op = "getOrCreateConversation" /\ last.err = OK)
        => \A c \in Profiles, o \in Profiles :
              (/\ {c, o} = {last.a, last.b}
               /\ getOrCreateConversationLookup(c, c, o))
              => /\ last'.op = "getOrCreateConversation" /\ last'.err = OK
                 /\ last'.id = last.id
                 /\ conversations' = conversations]_vars

C9_Witness ==
  /\ last.op = "getOrCreateConversation" /\ last.err = OK
  /\ last.a > last.b
  /\ \E x \in conversations : x.id = last.id /\ x.user_1 = last.b /\ x.user_2 = last.a

\* C10: a conversation row is inserted only for two profiles that are
\* mutual followers at the time of the insert.
C10_InsertNeedsMutualFollow ==
  [][\A x \in conversations' :
        x.id \notin {y.id : y \in conversations}
        => are_mutual_followers(x.user_1, x.user_2)]_vars

\* ------------------------------------------------------------ messages
MessagesOf(conversationId) == {m \in messages : m.conversation_id = conversationId}

Participants(c) == {c.user_1, c.user_2}

C13_InsertBySenderParticipant ==
  /\ [](\A p \in Profiles, id \in 1..MaxConversationRows, s \in Profiles :
          (MessageInsertError(p, MessageRow(msgSeq, id, s, now)) = OK)
          = (s = p /\ \E c \in conversations : c.id = id /\ p \in Participants(c)))
  /\ [](\A m \in messages : \E c \in conversations :
          c.id = m.conversation_id /\ m.sender_id \in Participants(c))
  /\ [][\A p \in Profiles, id \in 1..MaxConversationRows, s \in Profiles :
          (/\ MessageInsertError(p, MessageRow(msgSeq, id, s, now)) # OK
           /\ InsertMessage(p, id, s))
          => UNCHANGED <<messages, conversations>>]_vars

\* C14: when no sendMessage call is between its two requests, the
\* updated_at of every conversation is at or after the created_at of each
\* of its messages.
C14_TimestampBumped ==
  sendCalls = {} =>
    \A m \in messages :
       m.conversation_id \in DOMAIN updated_at
       /\ updated_at[m.conversation_id] >= m.created_at

\* ---------------------------------------------------- group membership
\* profiles with a membership row of the group, with any role and as admin
GroupMembersOf(groupId) == {m.profile_id : m \in {x \in group_members : x.group_id = groupId}}

GroupAdminsOf(groupId) ==
  {m.profile_id : m \in {x \in group_members : x.group_id = groupId /\ x.role = "admin"}}

GroupMessagesOf(groupId) == {m \in group_messages : m.group_id = groupId}

\* C15: while the rewriter expands the policies of a query on the group
\* tables, no relation is expanded twice and group_members is never expanded
\* below another relation's policy or its own; no policy of the three tables
\* reads group_members with the caller's rights, so the expansion ends
C15_NoPolicyRecursion ==
  /\ ~RecursionDetected
  /\ \A i \in DOMAIN rewriting : i > 1 => rewriting[i].rel # "group_members"
  /\ \A rel \in Relations, cmd \in Commands : "group_members" \notin PolicyReads(rel, cmd)
  /\ \A cmd \in Commands : ~infinite_recursion("group_members", cmd, {})
  /\ Len(rewriting) <= Cardinality(Relations)

\* a query on group_members whose policy made the rewriter expand the
\* policy of another relation, in a database that holds memberships
C15_Witness ==
  /\ Len(rewriting) = 2
  /\ rewriting[1].rel = "group_members"
  /\ group_members # {}

\* C16: when createGroup by profile P has returned, it returned a group
\* whose membership rows are exactly the one row (G, P, admin)
C16_CreateGroupGivesOneAdmin ==
  groupLast.op = "createGroup" =>
    /\ groupLast.err = OK
    /\ {m \in group_members : m.group_id = groupLast.id} =
         {GroupMemberRow(groupLast.id, groupLast.caller, "admin")}

\* C17: every group has its creator as a member with role admin, hence at
\* least one admin, whatever inserts, updates and deletes clients request
C17_CreatorStaysAdmin ==
  \A g \in groups : /\ g.created_by \in GroupAdminsOf(g.id)
                    /\ GroupRow(g.id, g.created_by) \in groups
                    /\ \A m \in group_members :
                         m.group_id = g.id /\ m.profile_id = g.created_by => m.role = "admin"

\* a group with a second admin next to its creator, and a plain member
C17_Witness ==
  \E g \in groups :
    /\ \E p \in GroupAdminsOf(g.id) : p # g.created_by
    /\ \E p \in GroupMembersOf(g.id) : p \notin GroupAdminsOf(g.id)

\* C18: a caller sees a group, and all of its messages, iff the caller has a
\* membership row of it, and sees none of its messages otherwise; a message
\* insert is accepted iff the caller is a member and the declared sender
C18_GroupAccessIffMember ==
  \A c \in Profiles : \A g \in groups :
    /\ g \in VisibleGroups(c) <=> c \in GroupMembersOf(g.id)
    /\ getGroupMessages(c, g.id) =
         IF c \in GroupMembersOf(g.id) THEN GroupMessagesOf(g.id) ELSE {}
    /\ \A s \in Profiles :
         sendGroupMessageError(c, GroupMessageRow(groupSeq.group_messages, g.id, s)) = OK
           <=> (c \in GroupMembersOf(g.id) /\ s = c)

\* a member that an admin added reads a message of the group, a profile
\* outside the group reads none, while a second group exists
C18_Witness ==
  \E g \in groups : \E m \in Profiles, n \in Profiles :
    /\ m # g.created_by
    /\ m \in GroupMembersOf(g.id)
    /\ n \notin GroupMembersOf(g.id)
    /\ getGroupMessages(m, g.id) # {}
    /\ getGroupMessages(n, g.id) = {}
    /\ \E h \in groups : h.id # g.id /\ n \in GroupMembersOf(h.id)

C20_InsertIffAdminOrEmptyOrCreator ==
  /\ [](\A c \in Profiles : \A g \in groups : \A p \in Profiles, r \in Roles :
          AdminsCanAddMembers(c, GroupMemberRow(g.id, p, r))
            <=> \/ c \in GroupAdminsOf(g.id)
                \/ GroupMembersOf(g.id) = {}
                \/ g.created_by = c)
  /\ [][group_members' # group_members =>
          \A c \in Profiles : \A g \in groups :
            (/\ c \notin GroupAdminsOf(g.id)
             /\ GroupMembersOf(g.id) # {}
             /\ g.created_by # c) =>
              \A p \in Profiles, r \in Roles : ~addGroupMember(c, g.id, p, r)]_vars

\* a group to which its creator added a member, who is no admin and not
\* the creator, and a profile outside the group
C20_Witness ==
  \E g \in groups : \E m \in Profiles, n \in Profiles :
    /\ m \in GroupMembersOf(g.id) \ GroupAdminsOf(g.id)
    /\ m # g.created_by
    /\ n \notin GroupMembersOf(g.id)

\* ------------------------------------------------- conversation frame
\* profiles whose SELECT on messages returns rows of the conversation's id
Readers(conversationId) ==
  {p \in Profiles : \E c \in VisibleConversations(p) : c.id = conversationId}

\* C25: no permitted request changes user_1 or user_2 of an existing
\* conversation, and the profiles able to read its messages stay the same
C25_ParticipantsNeverChange ==
  [][\A c \in conversations : \A d \in conversations' :
       d.id = c.id => /\ d.user_1 = c.user_1
                      /\ d.user_2 = c.user_2
                      /\ Readers(c.id)' = Readers(c.id)]_vars

\* C26: a follows row a -> b exists exactly when a follow request from a to
\* b with status accepted exists
C26_EdgeIffAcceptedRequest ==
  \A a \in Profiles, b \in Profiles :
    (FollowEdges(follows, a, b) # {})
      <=> (\E x \in Requests(follow_requests, a, b) : x.status = "accepted")

\* C27: a follows row a -> b comes to exist only when a follow request from
\* a to b existed before the step, and a request from a to b comes to exist
\* only by a request that profile a makes
C27_EdgeOnlyForOwnRequest ==
  /\ [][\A f \in follows' \ follows :
          Requests(follow_requests, f.follower_id, f.following_id) # {}]_vars
  /\ [][\A a \in Profiles, b \in Profiles :
          (Requests(follow_requests, a, b) = {} /\ Requests(follow_requests', a, b) # {})
            => LedgerRequestBy(a)]_vars

\* C28: a getOrCreateConversation call that returns while a conversation of
\* its pair exists, as the later of two overlapping calls for the pair does,
\* returns that conversation and no error
C28_ConcurrentCallsReturnSameRow ==
  \A x \in conversations :
    (last.op = "getOrCreateConversation" /\ {x.user_1, x.user_2} = {last.a, last.b})
      => (last.err = OK /\ last.id = x.id)

\* C22: addGroupMember by an admin for a profile that is already a member
\* of the group returns no error, and the group keeps exactly one row of
\* that profile
C22_DuplicateMemberIsNoOp ==
  \A g \in groups : \A c \in GroupAdminsOf(g.id), p \in GroupMembersOf(g.id), r \in Roles :
    /\ addGroupMemberError(c, GroupMemberRow(g.id, p, r)) = OK
    /\ Cardinality({m \in group_members : m.group_id = g.id /\ m.profile_id = p}) = 1

\* ------------------------------------------------ posts, likes, comments
MaxPostRows == 1
MaxCommentRows == 2
MaxCountValue == 1

PostRow(id, a, l, c) == [id |-> id, author_id |-> a, likes_count |-> l, comments_count |-> c]

\* "Users can update own posts": USING only, so it is applied to the old row
\* and to the new row; no column is excluded
UsersCanUpdateOwnPosts(caller, row) == row.author_id = get_my_profile_id(caller)

\* update_post_counts() fired for one row of likes or comments: one UPDATE of
\* the post the row points at, which changes nothing when that post is gone
update_post_counts(ps, TG_OP, TG_TABLE_NAME, row) ==
  LET delta == IF TG_OP = "INSERT" THEN 1 ELSE -1
  IN  {IF p.id # row.post_id THEN p
       ELSE IF TG_TABLE_NAME = "likes"
            THEN PostRow(p.id, p.author_id, p.likes_count + delta, p.comments_count)
            ELSE PostRow(p.id, p.author_id, p.likes_count, p.comments_count + delta)
       : p \in ps}

\* the AFTER ... FOR EACH ROW triggers update_likes_count and
\* update_comments_count: the function once per affected row
RECURSIVE ForEachRow(_, _, _, _)
ForEachRow(ps, TG_OP, TG_TABLE_NAME, rows) ==
  IF rows = {} THEN ps
  ELSE LET row == CHOOSE r \in rows : TRUE
       IN  ForEachRow(update_post_counts(ps, TG_OP, TG_TABLE_NAME, row),
                      TG_OP, TG_TABLE_NAME, rows \ {row})

\* ON DELETE CASCADE of comments.parent_id: the comments removed with the
\* given ones
RECURSIVE WithReplies(_)
WithReplies(cs) ==
  LET more == {c \in comments : \E d \in cs : c.parent_id = d.id}
  IN  IF more \subseteq cs THEN cs ELSE WithReplies(cs \cup more)

\* createPost: "Users can create posts" admits the author's row; the counters
\* take their column default 0
createPost(caller, authorId) ==
  /\ feedSeq.posts <= MaxPostRows
  /\ IF authorId = get_my_profile_id(caller)
     THEN /\ posts' = posts \cup {PostRow(feedSeq.posts, authorId, 0, 0)}
          /\ feedSeq' = [feedSeq EXCEPT !.posts = @ + 1]
          /\ UNCHANGED <<likes, comments>>
     ELSE UNCHANGED feedVars

\* UPDATE posts SET likes_count = l, comments_count = c WHERE id = postId, the
\* request "Users can update own posts" admits from the author
UpdatePost(caller, postId, l, c) ==
  LET target == {p \in posts : p.id = postId /\ UsersCanUpdateOwnPosts(caller, p)}
  IN  /\ posts' = (posts \ target) \cup {PostRow(p.id, p.author_id, l, c) : p \in target}
      /\ UNCHANGED <<likes, comments, feedSeq>>

\* deletePost: "Users can delete own posts" shows the author the row; the
\* post goes with its likes and comments (ON DELETE CASCADE) and the replies
\* of those comments; the triggers fire for every row removed
deletePost(caller, postId) ==
  LET target == {p \in posts : p.id = postId /\ p.author_id = get_my_profile_id(caller)}
      goneLikes == {l \in likes : \E p \in target : l.post_id = p.id}
      goneComments == WithReplies({c \in comments : \E p \in target : c.post_id = p.id})
  IN  /\ likes' = likes \ goneLikes
      /\ comments' = comments \ goneComments
      /\ posts' = ForEachRow(ForEachRow(posts \ target, "DELETE", "likes", goneLikes),
                             "DELETE", "comments", goneComments)
      /\ UNCHANGED feedSeq

\* likePost: the row is stored when "Users can like posts" admits it
\* (user_id is the caller), UNIQUE(post_id, user_id) has no such row (a
\* duplicate is answered 23505, which the client ignores) and the post
\* exists; the row trigger runs only for a row that was stored
likePost(caller, postId, profileId) ==
  LET row == [post_id |-> postId, user_id |-> profileId]
  IN  IF /\ profileId = get_my_profile_id(caller)
         /\ row \notin likes
         /\ \E p \in posts : p.id = postId
      THEN /\ likes' = likes \cup {row}
           /\ posts' = ForEachRow(posts, "INSERT", "likes", {row})
           /\ UNCHANGED <<comments, feedSeq>>
      ELSE UNCHANGED feedVars

\* unlikePost: deletes the rows "Users can unlike posts" shows (user_id is
\* the caller), possibly none
unlikePost(caller, postId, profileId) ==
  LET gone == {l \in likes : /\ l.post_id = postId
                             /\ l.user_id = profileId
                             /\ l.user_id = get_my_profile_id(caller)}
  IN  /\ likes' = likes \ gone
      /\ posts' = ForEachRow(posts, "DELETE", "likes", gone)
      /\ UNCHANGED <<comments, feedSeq>>

\* createComment: the row is stored when "Users can create comments" admits
\* it (author_id is the caller) and the post and the parent (0 is NULL) exist
createComment(caller, postId, authorId, parentId) ==
  LET row == [id |-> feedSeq.comments, post_id |-> postId, author_id |-> authorId,
              parent_id |-> parentId]
  IN  /\ feedSeq.comments <= MaxCommentRows
      /\ IF /\ authorId = get_my_profile_id(caller)
            /\ \E p \in posts : p.id = postId
            /\ parentId = 0 \/ \E c \in comments : c.id = parentId
         THEN /\ comments' = comments \cup {row}
              /\ posts' = ForEachRow(posts, "INSERT", "comments", {row})
              /\ feedSeq' = [feedSeq EXCEPT !.comments = @ + 1]
              /\ UNCHANGED likes
         ELSE UNCHANGED feedVars

\* DELETE FROM comments WHERE id = commentId, the request "Users can delete
\* own comments" admits from the author; the replies go with the comment
DeleteComment(caller, commentId) ==
  LET target == {c \in comments : c.id = commentId /\ c.author_id = get_my_profile_id(caller)}
      gone == WithReplies(target)
  IN  /\ comments' = comments \ gone
      /\ posts' = ForEachRow(posts, "DELETE", "comments", gone)
      /\ UNCHANGED <<likes, feedSeq>>

NextFeed ==
  \/ /\ \E c \in Profiles, a \in Profiles : createPost(c, a)
     /\ UNCHANGED <<ledgerVars, conversations, chatVars, groupVars, authVars, readVars, windowVars>>
  \/ /\ \E c \in Profiles, p \in 1..MaxPostRows, l \in 0..MaxCountValue,
          n \in 0..MaxCountValue : UpdatePost(c, p, l, n)
     /\ UNCHANGED <<ledgerVars, conversations, chatVars, groupVars, authVars, readVars, windowVars>>
  \/ /\ \E c \in Profiles, p \in 1..MaxPostRows : deletePost(c, p)
     /\ UNCHANGED <<ledgerVars, conversations, chatVars, groupVars, authVars, readVars, windowVars>>
  \/ /\ \E c \in Profiles, p \in 1..MaxPostRows, u \in Profiles : likePost(c, p, u)
     /\ UNCHANGED <<ledgerVars, conversations, chatVars, groupVars, authVars, readVars, windowVars>>
  \/ /\ \E c \in Profiles, p \in 1..MaxPostRows, u \in Profiles : unlikePost(c, p, u)
     /\ UNCHANGED <<ledgerVars, conversations, chatVars, groupVars, authVars, readVars, windowVars>>
  \/ /\ \E c \in Profiles, p \in 1..MaxPostRows, a \in Profiles, r \in 0..MaxCommentRows :
          createComment(c, p, a, r)
     /\ UNCHANGED <<ledgerVars, conversations, chatVars, groupVars, authVars, readVars, windowVars>>
  \/ /\ \E c \in Profiles, i \in 1..MaxCommentRows : DeleteComment(c, i)
     /\ UNCHANGED <<ledgerVars, conversations, chatVars, groupVars, authVars, readVars, windowVars>>

SpecFeed == Init /\ [][NextFeed]_vars

\* C21: the counters never drift: in every reachable state every post's
\* likes_count is the number of likes rows of the post and its comments_count
\* the number of comments rows of the post, under likes, unlikes, duplicate
\* likes, comment inserts and deletes and every update of a post that a client
\* is permitted to make
C21_CountersNeverDrift ==
  \A p \in posts :
    /\ p.likes_count = Cardinality({l \in likes : l.post_id = p.id})
    /\ p.comments_count = Cardinality({c \in comments : c.post_id = p.id})

\* ------------------------------------------------- profiles, AuthProvider
NumIdentities == 2
MaxProfileRows == 3

\* the external identities, auth.users(id); auth.uid() of a request is one
Identities == 1..NumIdentities

profiles_user_id_not_unique(row) == FALSE

\* user_id UUID NOT NULL UNIQUE
profiles_user_id_key(row) == \E r \in profiles : r.user_id = row.user_id

\* the outcome of INSERT INTO profiles for the row: "Users can insert own
\* profile" (user_id = auth.uid()), then the UNIQUE constraint
InsertProfileError(uid, row) ==
  IF row.user_id # uid THEN RLS_VIOLATION
  ELSE IF profiles_user_id_key(row) THEN UNIQUE_VIOLATION
  ELSE OK

\* getProfile: the id of the identity's profile; null when there is none, and
\* null when maybeSingle() answers an error because there are several
getProfile(userId) ==
  LET found == {r \in profiles : r.user_id = userId}
  IN  IF Cardinality(found) = 1 THEN (CHOOSE r \in found : TRUE).id ELSE 0

\* INSERT INTO profiles by some client of the identity uid
InsertProfile(uid, userId) ==
  LET row == [id |-> profileSeq, user_id |-> userId]
  IN  /\ profileSeq <= MaxProfileRows
      /\ IF InsertProfileError(uid, row) = OK
         THEN /\ profiles' = profiles \cup {row}
              /\ profileSeq' = profileSeq + 1
         ELSE UNCHANGED <<profiles, profileSeq>>
      /\ UNCHANGED <<initializeCalls, profile, loading, mounted>>

\* initialize up to its first await: returns at once after unmount; without
\* a user (session 0 is null) it sets the profile to null and loading to
\* false; with a user it sends getProfile's SELECT
initialize(i, currentSession) ==
  /\ initializeCalls[i].pc = "idle"
  /\ IF ~mounted
     THEN /\ initializeCalls' = [initializeCalls EXCEPT ![i].pc = "done"]
          /\ UNCHANGED <<profile, loading>>
     ELSE IF currentSession # 0
     THEN /\ initializeCalls' =
               [initializeCalls EXCEPT ![i] = [pc |-> "getProfile", user |-> currentSession, p |-> 0]]
          /\ UNCHANGED <<profile, loading>>
     ELSE /\ initializeCalls' = [initializeCalls EXCEPT ![i].pc = "done"]
          /\ profile' = 0
          /\ loading' = FALSE
  /\ UNCHANGED <<profiles, profileSeq, mounted>>

\* the server executes getProfile's SELECT of call i
SelectProfile(i) ==
  /\ initializeCalls[i].pc = "getProfile"
  /\ initializeCalls' = [initializeCalls EXCEPT ![i].pc = "gotProfile",
                                                ![i].p = getProfile(initializeCalls[i].user)]
  /\ UNCHANGED <<profiles, profileSeq, profile, loading, mounted>>

\* the end of initialize: if (mounted) setProfile(p); if (mounted) setLoading(false)
setProfileAndLoading(i) ==
  /\ initializeCalls' = [initializeCalls EXCEPT ![i].pc = "done"]
  /\ IF mounted
     THEN /\ profile' = initializeCalls[i].p
          /\ loading' = FALSE
     ELSE UNCHANGED <<profile, loading>>

\* initialize resumes after getProfile: without a profile, and still mounted,
\* it sends createProfile's INSERT; otherwise it finishes
afterGetProfile(i) ==
  /\ initializeCalls[i].pc = "gotProfile"
  /\ IF initializeCalls[i].p = 0 /\ mounted
     THEN /\ initializeCalls' = [initializeCalls EXCEPT ![i].pc = "createProfile"]
          /\ UNCHANGED <<profile, loading>>
     ELSE setProfileAndLoading(i)
  /\ UNCHANGED <<profiles, profileSeq, mounted>>

\* the server executes createProfile's INSERT ... RETURNING of call i; on an
\* error createProfile returns null
InsertOwnProfile(i) ==
  LET row == [id |-> profileSeq, user_id |-> initializeCalls[i].user]
  IN  /\ initializeCalls[i].pc = "createProfile"
      /\ profileSeq <= MaxProfileRows
      /\ IF InsertProfileError(initializeCalls[i].user, row) = OK
         THEN /\ profiles' = profiles \cup {row}
              /\ profileSeq' = profileSeq + 1
              /\ initializeCalls' = [initializeCalls EXCEPT ![i].pc = "createdProfile",
                                                            ![i].p = row.id]
         ELSE /\ initializeCalls' = [initializeCalls EXCEPT ![i].pc = "createdProfile",
                                                            ![i].p = 0]
              /\ UNCHANGED <<profiles, profileSeq>>
      /\ UNCHANGED <<profile, loading, mounted>>

\* initialize resumes after createProfile
afterCreateProfile(i) ==
  /\ initializeCalls[i].pc = "createdProfile"
  /\ setProfileAndLoading(i)
  /\ UNCHANGED <<profiles, profileSeq, mounted>>

\* the effect's cleanup
Unmount ==
  /\ mounted
  /\ mounted' = FALSE
  /\ UNCHANGED <<profiles, profileSeq, initializeCalls, profile, loading>>

\* the safety timeout: its closure holds the loading of the first render,
\* which is true
SafetyTimeout ==
  /\ mounted
  /\ loading' = FALSE
  /\ UNCHANGED <<profiles, profileSeq, initializeCalls, profile, mounted>>

NextAuth ==
  \/ /\ \E uid \in Identities, u \in Identities : InsertProfile(uid, u)
     /\ UNCHANGED <<ledgerVars, conversations, chatVars, groupVars, feedVars, readVars, windowVars>>
  \/ /\ \E i \in InitializeCalls, s \in {0} \cup Identities : initialize(i, s)
     /\ UNCHANGED <<ledgerVars, conversations, chatVars, groupVars, feedVars, readVars, windowVars>>
  \/ /\ \E i \in InitializeCalls : SelectProfile(i)
     /\ UNCHANGED <<ledgerVars, conversations, chatVars, groupVars, feedVars, readVars, windowVars>>
  \/ /\ \E i \in InitializeCalls : afterGetProfile(i)
     /\ UNCHANGED <<ledgerVars, conversations, chatVars, groupVars, feedVars, readVars, windowVars>>
  \/ /\ \E i \in InitializeCalls : InsertOwnProfile(i)
     /\ UNCHANGED <<ledgerVars, conversations, chatVars, groupVars, feedVars, readVars, windowVars>>
  \/ /\ \E i \in InitializeCalls : afterCreateProfile(i)
     /\ UNCHANGED <<ledgerVars, conversations, chatVars, groupVars, feedVars, readVars, windowVars>>
  \/ /\ Unmount
     /\ UNCHANGED <<ledgerVars, conversations, chatVars, groupVars, feedVars, readVars, windowVars>>
  \/ /\ SafetyTimeout
     /\ UNCHANGED <<ledgerVars, conversations, chatVars, groupVars, feedVars, readVars, windowVars>>

SpecAuth == Init /\ [][NextAuth]_vars

\* C23: in every reachable state at most one profile row exists per external
\* identity, also when two initialize calls for the same identity both read
\* no profile and both insert one; once a call's insert has been executed, or
\* a call has finished for an identity while mounted, exactly one profile of
\* that identity exists
C23_OneProfilePerIdentity ==
  /\ \A u \in Identities : Cardinality({r \in profiles : r.user_id = u}) <= 1
  /\ \A i \in InitializeCalls :
       (\/ initializeCalls[i].pc = "createdProfile"
        \/ initializeCalls[i].pc = "done" /\ initializeCalls[i].user # 0 /\ mounted)
       => Cardinality({r \in profiles : r.user_id = initializeCalls[i].user}) = 1

\* both calls read no profile for the same identity and both inserts were
\* executed: one stored the row, the other was refused
C23_Witness ==
  /\ initializeCalls["getSession"].pc = "createdProfile"
  /\ initializeCalls["onAuthStateChange"].pc = "createdProfile"
  /\ initializeCalls["getSession"].user = initializeCalls["onAuthStateChange"].user
  /\ initializeCalls["getSession"].p # 0
  /\ initializeCalls["onAuthStateChange"].p = 0
  /\ Cardinality({r \in profiles : r.user_id = initializeCalls["getSession"].user}) = 1

\* C29: for an authenticated session, once both initialize calls (the
\* getSession callback and the onAuthStateChange callback) have completed,
\* the provider's profile state is the identity's profile (non-null) and
\* loading is false, whatever the interleaving of the calls' steps
C29_ProfileSetAfterInitialize ==
  \A u \in Identities :
    (/\ mounted
     /\ \A i \in InitializeCalls :
          initializeCalls[i].pc = "done" /\ initializeCalls[i].user = u)
    => /\ profile # 0
       /\ \E r \in profiles : r.id = profile /\ r.user_id = u
       /\ ~loading

\* ------------------------------------------------------- chat_read_status
MaxReadRows == 3

\* conversation_id 0 and group_id 0 are NULL
ReadStatusRow(id, p, c, g, t) ==
  [id |-> id, profile_id |-> p, conversation_id |-> c, group_id |-> g, last_read_at |-> t]

\* UNIQUE(profile_id, conversation_id): rows with a NULL never conflict
chat_read_status_profile_id_conversation_id_key(rows, row) ==
  \E x \in rows : /\ x.id # row.id
                  /\ x.profile_id = row.profile_id
                  /\ row.conversation_id # 0
                  /\ x.conversation_id = row.conversation_id

\* UNIQUE(profile_id, group_id): rows with a NULL never conflict
chat_read_status_profile_id_group_id_key(rows, row) ==
  \E x \in rows : /\ x.id # row.id
                  /\ x.profile_id = row.profile_id
                  /\ row.group_id # 0
                  /\ x.group_id = row.group_id

\* "Users can manage their own read status", FOR ALL
UsersCanManageTheirOwnReadStatus(caller, row) == row.profile_id = get_my_profile_id(caller)

\* onConflict: conversationId ? 'profile_id,conversation_id' : 'profile_id,group_id';
\* the stored row the payload conflicts with on that constraint
ConflictTarget(conversationId, row) ==
  IF conversationId # 0
  THEN {x \in chat_read_status :
          chat_read_status_profile_id_conversation_id_key({x}, row)}
  ELSE {x \in chat_read_status : chat_read_status_profile_id_group_id_key({x}, row)}

\* the row the upsert stores: the payload, or (ON CONFLICT DO UPDATE SET) the
\* conflicting row with the columns of the payload written over it
Upserted(conversationId, row) ==
  IF ConflictTarget(conversationId, row) = {} THEN row
  ELSE LET x == CHOOSE y \in ConflictTarget(conversationId, row) : TRUE
       IN  ReadStatusRow(x.id, row.profile_id,
                         IF row.conversation_id # 0 THEN row.conversation_id
                         ELSE x.conversation_id,
                         IF row.group_id # 0 THEN row.group_id ELSE x.group_id,
                         row.last_read_at)

\* the outcome of the upsert: the policy on the payload and on the row it
\* overwrites, the UNIQUE constraints, the foreign keys to conversations and
\* groups
markAsReadError(caller, conversationId, row) ==
  LET new == Upserted(conversationId, row)
  IN  IF ~UsersCanManageTheirOwnReadStatus(caller, row) THEN RLS_VIOLATION
      ELSE IF \E x \in ConflictTarget(conversationId, row) :
                ~UsersCanManageTheirOwnReadStatus(caller, x) THEN RLS_VIOLATION
      ELSE IF \/ chat_read_status_profile_id_conversation_id_key(chat_read_status, new)
              \/ chat_read_status_profile_id_group_id_key(chat_read_status, new)
           THEN UNIQUE_VIOLATION
      ELSE IF \/ new.conversation_id # 0 /\ ~\E c \in conversations : c.id = new.conversation_id
              \/ new.group_id # 0 /\ ~\E g \in groups : g.id = new.group_id
           THEN FOREIGN_KEY_VIOLATION
      ELSE OK

\* markAsRead: the payload leaves out the column of an argument that is not
\* given (0); an error is logged and nothing is stored
markAsRead(caller, profileId, conversationId, groupId) ==
  LET row == ReadStatusRow(readSeq, profileId, conversationId, groupId, now)
      old == ConflictTarget(conversationId, row)
  IN  IF markAsReadError(caller, conversationId, row) # OK
      THEN UNCHANGED readVars
      ELSE IF old = {}
      THEN /\ readSeq <= MaxReadRows
           /\ chat_read_status' = chat_read_status \cup {row}
           /\ readSeq' = readSeq + 1
      ELSE /\ chat_read_status' = (chat_read_status \ old) \cup {Upserted(conversationId, row)}
           /\ UNCHANGED readSeq

\* profiles 1 and 2 follow each other and have a conversation; profile 1 has
\* created a group
InitRead ==
  /\ InitChatTables
  /\ InitExtraTables
  /\ follow_requests = {FollowRequestRow(1, 1, 2, "accepted"),
                        FollowRequestRow(2, 2, 1, "accepted")}
  /\ follows = {FollowRow(1, 1, 2), FollowRow(2, 2, 1)}
  /\ conversations = {ConversationRow(1, 1, 2)}
  /\ seq = [follow_requests |-> 3, follows |-> 3, conversations |-> 2]
  /\ unfollowCalls = {}
  /\ convCalls = {}
  /\ last = None
  /\ groups = {GroupRow(1, 1)}
  /\ group_members = {GroupMemberRow(1, 1, "admin")}
  /\ group_messages = {}
  /\ groupSeq = [groups |-> 2, group_messages |-> 1]
  /\ policySet = "helper"
  /\ rewriting = <<>>
  /\ groupLast = NoGroupCall

NextRead ==
  \/ /\ \E c \in Profiles, p \in Profiles, cid \in 0..MaxConversationRows,
          gid \in 0..MaxGroupRows : markAsRead(c, p, cid, gid)
     /\ UNCHANGED <<ledgerVars, conversations, chatVars, groupVars, feedVars, authVars, windowVars>>
  \/ /\ Tick
     /\ UNCHANGED <<groupVars, extraVars>>

SpecRead == InitRead /\ [][NextRead]_vars

\* C24: in every reachable state every read status row has exactly one of
\* conversation_id and group_id set, and there is at most one row per
\* (profile, conversation) and per (profile, group), whatever combination of
\* the optional conversationId and groupId arguments markAsRead is called with
C24_OneTargetOneRow ==
  /\ \A r \in chat_read_status : (r.conversation_id # 0) # (r.group_id # 0)
  /\ \A r1 \in chat_read_status, r2 \in chat_read_status :
       (/\ r1.profile_id = r2.profile_id
        /\ \/ r1.conversation_id # 0 /\ r1.conversation_id = r2.conversation_id
           \/ r1.group_id # 0 /\ r1.group_id = r2.group_id)
       => r1.id = r2.id

\* ------------------------------------------- ChatWindow, GroupChatWindow
MaxWindowSends == 2
MaxWindowMessages == 2

\* the chat windows: the two current components, whose handleSend inserts an
\* optimistic entry, and the earlier ChatWindow, whose handleSend appends the
\* saved message
Components == {"ChatWindow", "GroupChatWindow", "ChatWindowEarlier"}

\* an entry of the list with the id the server gave the message
Saved(id) == [kind |-> "saved", id |-> id]

\* an entry of the list with a tempId of crypto.randomUUID()
Temp(id) == [kind |-> "temp", id |-> id]

\* prev => prev.some(m => m.id === message.id) ? prev : [...prev, message]
appendUnlessPresent(prev, entry) ==
  IF \E i \in DOMAIN prev : prev[i] = entry THEN prev ELSE Append(prev, entry)

\* handleSend up to its await: returns while a send is under way (isSending);
\* the current components append the optimistic entry before the request
handleSend ==
  /\ windowSends = {}
  /\ windowSeq.tempId <= MaxWindowSends
  /\ windowSends' = {[tempId |-> windowSeq.tempId, pc |-> "sending", saved |-> 0]}
  /\ windowSeq' = [windowSeq EXCEPT !.tempId = @ + 1]
  /\ windowMessages' = IF component # "ChatWindowEarlier"
                       THEN Append(windowMessages, Temp(windowSeq.tempId))
                       ELSE windowMessages
  /\ UNCHANGED <<component, realtime>>

\* the server executes the INSERT of the send: it stores the message, which
\* raises the INSERT event for the subscribers, or rejects the row
StoreOwnMessage(stored) ==
  \E s \in windowSends :
    /\ s.pc = "sending"
    /\ IF stored
       THEN /\ windowSeq.messages <= MaxWindowMessages
            /\ windowSends' = {[s EXCEPT !.pc = "stored", !.saved = windowSeq.messages]}
            /\ realtime' = realtime \cup {windowSeq.messages}
            /\ windowSeq' = [windowSeq EXCEPT !.messages = @ + 1]
       ELSE /\ windowSends' = {[s EXCEPT !.pc = "failed"]}
            /\ UNCHANGED <<realtime, windowSeq>>
    /\ UNCHANGED <<component, windowMessages>>

\* the server stores a message of another sender of the conversation or group
StoreOtherMessage ==
  /\ windowSeq.messages <= MaxWindowMessages
  /\ realtime' = realtime \cup {windowSeq.messages}
  /\ windowSeq' = [windowSeq EXCEPT !.messages = @ + 1]
  /\ UNCHANGED <<component, windowMessages, windowSends>>

\* the subscription's handler for one INSERT event: it fetches the row (or
\* the sender) and calls the window's callback, or calls nothing when the
\* fetch gives no data
subscribeCallback(id, fetched) ==
  /\ id \in realtime
  /\ realtime' = realtime \ {id}
  /\ windowMessages' = IF fetched THEN appendUnlessPresent(windowMessages, Saved(id))
                       ELSE windowMessages
  /\ UNCHANGED <<component, windowSends, windowSeq>>

\* handleSend resumes with the saved message: the current components do
\* prev.map(m => m.id === tempId ? savedMsg : m), the earlier one appends the
\* message unless its id is in the list
afterSend ==
  \E s \in windowSends :
    /\ s.pc = "stored"
    /\ windowSends' = {}
    /\ windowMessages' =
         IF component # "ChatWindowEarlier"
         THEN [i \in DOMAIN windowMessages |->
                 IF windowMessages[i] = Temp(s.tempId) THEN Saved(s.saved)
                 ELSE windowMessages[i]]
         ELSE appendUnlessPresent(windowMessages, Saved(s.saved))
    /\ UNCHANGED <<component, realtime, windowSeq>>

\* handleSend resumes in its catch block: prev.filter(m => m.id !== tempId)
afterSendError ==
  \E s \in windowSends :
    /\ s.pc = "failed"
    /\ windowSends' = {}
    /\ windowMessages' = IF component # "ChatWindowEarlier"
                         THEN SelectSeq(windowMessages, LAMBDA m : m # Temp(s.tempId))
                         ELSE windowMessages
    /\ UNCHANGED <<component, realtime, windowSeq>>

\* any of the chat windows, right after its messages are loaded
InitAnyWindow ==
  /\ InitChatTables
  /\ InitGroupTables
  /\ follow_requests = {}
  /\ follows = {}
  /\ conversations = {}
  /\ seq = [follow_requests |-> 1, follows |-> 1, conversations |-> 1]
  /\ unfollowCalls = {}
  /\ convCalls = {}
  /\ last = None
  /\ posts = {}
  /\ likes = {}
  /\ comments = {}
  /\ feedSeq = [posts |-> 1, comments |-> 1]
  /\ profiles = {}
  /\ profileSeq = 1
  /\ initializeCalls = [i \in InitializeCalls |-> [pc |-> "idle", user |-> 0, p |-> 0]]
  /\ profile = 0
  /\ loading = TRUE
  /\ mounted = TRUE
  /\ chat_read_status = {}
  /\ readSeq = 1
  /\ component \in Components
  /\ windowMessages = <<>>
  /\ windowSends = {}
  /\ realtime = {}
  /\ windowSeq = [messages |-> 1, tempId |-> 1]

NextWindow ==
  \/ /\ handleSend
     /\ UNCHANGED <<ledgerVars, conversations, chatVars, groupVars, feedVars, authVars, readVars>>
  \/ /\ \E stored \in BOOLEAN : StoreOwnMessage(stored)
     /\ UNCHANGED <<ledgerVars, conversations, chatVars, groupVars, feedVars, authVars, readVars>>
  \/ /\ StoreOtherMessage
     /\ UNCHANGED <<ledgerVars, conversations, chatVars, groupVars, feedVars, authVars, readVars>>
  \/ /\ \E id \in 1..MaxWindowMessages, fetched \in BOOLEAN : subscribeCallback(id, fetched)
     /\ UNCHANGED <<ledgerVars, conversations, chatVars, groupVars, feedVars, authVars, readVars>>
  \/ /\ afterSend
     /\ UNCHANGED <<ledgerVars, conversations, chatVars, groupVars, feedVars, authVars, readVars>>
  \/ /\ afterSendError
     /\ UNCHANGED <<ledgerVars, conversations, chatVars, groupVars, feedVars, authVars, readVars>>

SpecWindow == InitAnyWindow /\ [][NextWindow]_vars

\* C30: the message list of a chat window never contains two entries with the
\* same message id, and when a send completes with the saved message the list
\* contains that message exactly once, whatever the order of the optimistic
\* insert, the realtime callback for the message and the replacement of the
\* optimistic entry
C30_NoDuplicateMessage ==
  /\ [](\A i \in DOMAIN windowMessages, j \in DOMAIN windowMessages :
          windowMessages[i].id = windowMessages[j].id
          /\ windowMessages[i].kind = windowMessages[j].kind => i = j)
  /\ [][\A s \in windowSends :
          (s.pc = "stored" /\ windowSends' = {})
          => Cardinality({i \in DOMAIN windowMessages' :
                            windowMessages'[i] = Saved(s.saved)}) = 1]_vars

====
